---- MODULE Spec2Model ----
(***************************************************************************)
(* DrawingWidget (src/ConvexHull/drawingwidget.cpp): a point sequence, two *)
(* convex hulls over it (Graham scan and brute force) and their iteration  *)
(* counters.  Points are clicked positions; the model draws them from an   *)
(* integer grid, so that every product below is exact and the test         *)
(* std::abs(cr) < 1e-9 is the test cr = 0.  Hull entries are the 0-based   *)
(* indices of the C++ code; a TLA+ sequence is 1-based, so points[i] of    *)
(* the code is At(pts, i).                                                 *)
(***************************************************************************)
EXTENDS Integers, Sequences, FiniteSets

VARIABLES points, hullFast, hullSlow, iterationsFast, iterationsSlow,
          sortTies, lastCall

vars == <<points, hullFast, hullSlow, iterationsFast, iterationsSlow,
          sortTies, lastCall>>

\* ---------------------------------------------------------------- bounds
\* largest coordinate of a clicked position
GridMax == 2
\* most points clicked on the grid
MaxPoints == 3
\* most points clicked in the square scenario
SquareMaxPoints == 5
\* most points clicked in the triangle scenario
TriangleMaxPoints == 5

Grid == (0..GridMax) \X (0..GridMax)

\* the scenario input: a square with one interior point
Square == << <<0, 0>>, <<4, 0>>, <<4, 4>>, <<0, 4>>, <<2, 2>> >>
SquarePts == {Square[i] : i \in 1..Len(Square)}

\* the corners of a triangle and the grid position strictly inside it
Triangle == << <<0, 0>>, <<2, 1>>, <<1, 2>>, <<1, 1>> >>
TrianglePts == {Triangle[i] : i \in 1..Len(Triangle)}

\* std::sort leaves the relative order of equivalent elements unspecified:
\* "kept" leaves them in their input order, "swapped" in the opposite one.
TieOrders == {"kept", "swapped"}

Buttons == {"LeftButton", "RightButton"}

\* --------------------------------------------------------------- helpers
At(pts, i) == pts[i + 1]

Range(s) == {s[i] : i \in 1..Len(s)}

NearZero(cr) == cr = 0

cross(o, a, b) ==
    (a[1] - o[1]) * (b[2] - o[2]) - (a[2] - o[2]) * (b[1] - o[1])

\* the cross product with the sign of its second term flipped
crossVecSignSlip(a, b) == a[1] * b[2] + a[2] * b[1]
crossVec(a, b) == a[1] * b[2] - a[2] * b[1]

dist2(a, b) ==
    LET dx == a[1] - b[1]
        dy == a[2] - b[2]
    IN  dx * dx + dy * dy

\* ------------------------------------------------------------- std::sort
\* The ranges sorted here are shorter than the 16 elements from which
\* std::sort (libstdc++) starts partitioning, so it runs as an insertion
\* sort: each element is compared with the first one and put in front if it
\* sorts before it, and otherwise moved left while it sorts before its
\* neighbour ("kept").  A longer range is partitioned and its equivalent
\* elements may change places; "swapped" stands for that outcome: an
\* element also moves left past the elements it is equivalent to.
\* lessRel is the comparator as a set of pairs <<a, b>> (comp(a, b) holds),
\* counted the pairs on which the comparator increments the counter.
Before(val, x, lessRel, ties) ==
    IF ties = "kept" THEN <<val, x>> \in lessRel ELSE <<x, val>> \notin lessRel

Tick(a, b, counted) == IF <<a, b>> \in counted THEN 1 ELSE 0

RECURSIVE linearInsert(_, _, _, _, _, _)
linearInsert(s, val, j, lessRel, counted, ties) ==
    IF j = 0
    THEN [seq |-> <<val>> \o s, cnt |-> 0]
    ELSE IF Before(val, s[j], lessRel, ties)
         THEN LET r == linearInsert(s, val, j - 1, lessRel, counted, ties)
              IN  [seq |-> r.seq, cnt |-> r.cnt + Tick(val, s[j], counted)]
         ELSE [seq |-> SubSeq(s, 1, j) \o <<val>> \o SubSeq(s, j + 1, Len(s)),
               cnt |-> Tick(val, s[j], counted)]

RECURSIVE insertionSort(_, _, _, _, _, _)
insertionSort(src, i, acc, lessRel, counted, ties) ==
    IF i > Len(src)
    THEN acc
    ELSE LET val == src[i]
             s == acc.seq
             c == Tick(val, s[1], counted)
             r == IF Before(val, s[1], lessRel, ties)
                  THEN [seq |-> <<val>> \o s, cnt |-> c]
                  ELSE LET l == linearInsert(s, val, Len(s), lessRel, counted, ties)
                       IN  [seq |-> l.seq, cnt |-> l.cnt + c]
         IN  insertionSort(src, i + 1, [seq |-> r.seq, cnt |-> acc.cnt + r.cnt],
                           lessRel, counted, ties)

stdSort(src, lessRel, counted, ties) ==
    IF Len(src) <= 1
    THEN [seq |-> src, cnt |-> 0]
    ELSE insertionSort(src, 2, [seq |-> <<src[1]>>, cnt |-> 0], lessRel, counted, ties)

\* ----------------------------------------------------- computeGrahamScan
Indices(n) == [i \in 1..n |-> i - 1]

\* the pivot loop: lowest y, and lowest x among those
RECURSIVE findPivot(_, _, _)
findPivot(pts, i, pivot) ==
    IF i >= Len(pts)
    THEN pivot
    ELSE LET p == At(pts, i)
             q == At(pts, pivot)
         IN  findPivot(pts, i + 1,
                       IF p[2] < q[2] \/ (p[2] = q[2] /\ p[1] < q[1])
                       THEN i ELSE pivot)

\* the comparator given to std::sort
angleLess(pts, pivot, a, b) ==
    IF a = pivot THEN TRUE
    ELSE IF b = pivot THEN FALSE
    ELSE LET p0 == At(pts, pivot)
             va == <<At(pts, a)[1] - p0[1], At(pts, a)[2] - p0[2]>>
             vb == <<At(pts, b)[1] - p0[1], At(pts, b)[2] - p0[2]>>
             cr == crossVec(va, vb)
         IN  IF NearZero(cr)
             THEN dist2(p0, At(pts, a)) < dist2(p0, At(pts, b))
             ELSE cr > 0

\* the comparator returns before ++iterations when a or b is the pivot
angleCounted(pivot, a, b) == a # pivot /\ b # pivot

\* the collinear-run reduction over the sorted indices
RECURSIVE filterRuns(_, _, _, _, _)
filterRuns(pts, pivot, idx, i, acc) ==
    IF i > Len(idx)
    THEN acc
    ELSE LET filtered == acc.seq
         IN  IF filtered # <<>> /\ idx[i] = pivot
             THEN filterRuns(pts, pivot, idx, i + 1, acc)
             ELSE IF filtered = <<>>
             THEN filterRuns(pts, pivot, idx, i + 1,
                             [seq |-> <<idx[i]>>, cnt |-> acc.cnt])
             ELSE LET p0 == At(pts, pivot)
                      A == At(pts, filtered[Len(filtered)])
                      B == At(pts, idx[i])
                      VA == <<A[1] - p0[1], A[2] - p0[2]>>
                      VB == <<B[1] - p0[1], B[2] - p0[2]>>
                      cr == crossVec(VA, VB)
                      next == IF NearZero(cr)
                              THEN IF dist2(p0, A) < dist2(p0, B)
                                   THEN [filtered EXCEPT ![Len(filtered)] = idx[i]]
                                   ELSE filtered
                              ELSE Append(filtered, idx[i])
                  IN  filterRuns(pts, pivot, idx, i + 1,
                                 [seq |-> next, cnt |-> acc.cnt + 1])

\* the while loop of the stack sweep: pop while the turn is not a left turn
RECURSIVE popNonLeft(_, _, _)
popNonLeft(pts, acc, s3) ==
    LET st == acc.seq
    IN  IF Len(st) < 2
        THEN acc
        ELSE LET s1 == st[Len(st) - 1]
                 s2 == st[Len(st)]
                 cr == cross(At(pts, s1), At(pts, s2), At(pts, s3))
             IN  IF cr <= 0
                 THEN popNonLeft(pts, [seq |-> SubSeq(st, 1, Len(st) - 1),
                                       cnt |-> acc.cnt + 1], s3)
                 ELSE [seq |-> st, cnt |-> acc.cnt + 1]

RECURSIVE stackSweep(_, _, _, _)
stackSweep(pts, filtered, i, acc) ==
    IF i > Len(filtered)
    THEN acc
    ELSE LET popped == popNonLeft(pts, acc, filtered[i])
         IN  stackSweep(pts, filtered, i + 1,
                        [seq |-> Append(popped.seq, filtered[i]), cnt |-> popped.cnt])

computeGrahamScan(pts, ties) ==
    LET n == Len(pts)
        idx == Indices(n)
        pivot == findPivot(pts, 1, 0)
        S == 0..(n - 1)
        lessRel == {ab \in S \X S : angleLess(pts, pivot, ab[1], ab[2])}
        counted == {ab \in S \X S : angleCounted(pivot, ab[1], ab[2])}
        sorted == stdSort(idx, lessRel, counted, ties)
        flt == filterRuns(pts, pivot, sorted.seq, 1, [seq |-> <<>>, cnt |-> 0])
        filtered == flt.seq
        before == (n - 1) + sorted.cnt + flt.cnt
    IN  IF Len(filtered) < 3
        THEN [hull |-> filtered, iterations |-> before]
        ELSE LET sw == stackSweep(pts, filtered, 3,
                                  [seq |-> <<filtered[1], filtered[2]>>, cnt |-> 0])
             IN  [hull |-> sw.seq, iterations |-> before + sw.cnt]

\* ------------------------------------------------------- orderHullPoints
\* std::atan2(v.y, v.x) lies in (-pi, pi].  Its order is decided exactly:
\* by the part of the circle the vector lies in, and inside an open half
\* circle by the sign of the cross product.  atan2(0, 0) is 0, and a zero
\* difference of two doubles is +0, so atan2(0, x < 0) is pi.
atan2Part(v) ==
    IF v[2] < 0 THEN 0
    ELSE IF v[2] = 0 /\ v[1] >= 0 THEN 1
    ELSE IF v[2] > 0 THEN 2
    ELSE 3

atan2Less(va, vb) ==
    \/ atan2Part(va) < atan2Part(vb)
    \/ /\ atan2Part(va) = atan2Part(vb)
       /\ atan2Part(va) \in {0, 2}
       /\ crossVec(va, vb) > 0

RECURSIVE sumCoord(_, _, _)
sumCoord(pts, c, i) == IF i > Len(pts) THEN 0 ELSE pts[i][c] + sumCoord(pts, c, i + 1)

\* pts[i] - center, scaled by m so that the centroid's division is exact
fromCenter(pts, i) ==
    LET m == Len(pts)
    IN  <<m * pts[i][1] - sumCoord(pts, 1, 1), m * pts[i][2] - sumCoord(pts, 2, 1)>>

orderHullPoints(pts, indices, ties) ==
    LET m == Len(pts)
    IN  IF m <= 1
        THEN indices
        ELSE LET lessRel == {ab \in (1..m) \X (1..m) :
                                atan2Less(fromCenter(pts, ab[1]), fromCenter(pts, ab[2]))}
                 arr == stdSort([i \in 1..m |-> i], lessRel, {}, ties).seq
             IN  [i \in 1..m |-> indices[arr[i]]]

\* ------------------------------------------------- computeSlowConvexHull
\* the loop over k for one pair (i, j); st is [pos, neg, cnt]
RECURSIVE sideScan(_, _, _, _, _)
sideScan(pts, i, j, k, st) ==
    IF k >= Len(pts)
    THEN st
    ELSE IF k = i \/ k = j
    THEN sideScan(pts, i, j, k + 1, st)
    ELSE LET c == cross(At(pts, i), At(pts, j), At(pts, k))
             pos == st.pos \/ c > 0
             neg == st.neg \/ (~(c > 0) /\ c < 0)
             now == [pos |-> pos, neg |-> neg, cnt |-> st.cnt + 1]
         IN  IF pos /\ neg THEN now ELSE sideScan(pts, i, j, k + 1, now)

\* the loops over i and j; acc is [edges, cnt]
RECURSIVE pairLoop(_, _, _, _)
pairLoop(pts, i, j, acc) ==
    IF i >= Len(pts)
    THEN acc
    ELSE IF j >= Len(pts)
    THEN pairLoop(pts, i + 1, i + 2, acc)
    ELSE LET st == sideScan(pts, i, j, 0, [pos |-> FALSE, neg |-> FALSE, cnt |-> 0])
         IN  pairLoop(pts, i, j + 1,
                      [edges |-> IF ~(st.pos /\ st.neg)
                                 THEN acc.edges \cup {<<i, j>>, <<j, i>>}
                                 ELSE acc.edges,
                       cnt |-> acc.cnt + st.cnt])

RECURSIVE ascending(_)
ascending(S) ==
    IF S = {}
    THEN <<>>
    ELSE LET m == CHOOSE x \in S : \A y \in S : x <= y
         IN  <<m>> \o ascending(S \ {m})

RECURSIVE firstOfEachEdge(_, _)
firstOfEachEdge(vs, edges) ==
    IF vs = <<>>
    THEN <<>>
    ELSE [i \in 1..Cardinality({e \in edges : e[1] = Head(vs)}) |-> Head(vs)]
         \o firstOfEachEdge(Tail(vs), edges)

\* a vector filled with an endpoint per edge instead of a std::set<int>
collectVertsNoSet(edges) ==
    firstOfEachEdge(ascending({e[1] : e \in edges}), edges)

\* std::set<int> verts, iterated in ascending order
collectVerts(edges) ==
    ascending({e[1] : e \in edges} \cup {e[2] : e \in edges})

computeSlowConvexHull(pts, ties) ==
    IF Len(pts) < 3
    THEN [hull |-> <<>>, iterations |-> 0]
    ELSE LET lp == pairLoop(pts, 0, 1, [edges |-> {}, cnt |-> 0])
             idx == collectVerts(lp.edges)
         IN  IF idx = <<>>
             THEN [hull |-> <<>>, iterations |-> lp.cnt]
             ELSE [hull |-> orderHullPoints([i \in 1..Len(idx) |-> At(pts, idx[i])],
                                            idx, ties),
                   iterations |-> lp.cnt]

\* ------------------------------------------------------------ the widget
\* sortTies is the order in which the build's std::sort leaves equivalent
\* elements; lastCall is the last handler that changed the widget.
Init ==
    /\ points = <<>>
    /\ hullFast = <<>>
    /\ hullSlow = <<>>
    /\ iterationsFast = 0
    /\ iterationsSlow = 0
    /\ sortTies \in TieOrders
    /\ lastCall = "constructor"

\* a click that appends the point and leaves the hulls and counters alone
mousePressEventKeepsHulls(p, max) ==
    /\ Len(points) < max
    /\ \E button \in Buttons :
         IF button = "LeftButton"
         THEN /\ points' = Append(points, p)
              /\ lastCall' = "mousePressEvent"
              /\ UNCHANGED <<hullFast, hullSlow, iterationsFast, iterationsSlow>>
         ELSE UNCHANGED <<points, hullFast, hullSlow, iterationsFast,
                          iterationsSlow, lastCall>>
    /\ UNCHANGED sortTies

\* a click at p; max is the bound on the number of points
mousePressEvent(p, max) ==
    /\ Len(points) < max
    /\ \E button \in Buttons :
         IF button = "LeftButton"
         THEN /\ points' = Append(points, p)
              /\ hullFast' = <<>>
              /\ hullSlow' = <<>>
              /\ iterationsFast' = 0
              /\ iterationsSlow' = 0
              /\ lastCall' = "mousePressEvent"
         ELSE UNCHANGED <<points, hullFast, hullSlow, iterationsFast,
                          iterationsSlow, lastCall>>
    /\ UNCHANGED sortTies

clearAll ==
    /\ points' = <<>>
    /\ hullFast' = <<>>
    /\ hullSlow' = <<>>
    /\ iterationsFast' = 0
    /\ iterationsSlow' = 0
    /\ lastCall' = "clearAll"
    /\ UNCHANGED sortTies

\* a run whose short-circuit tests for fewer than 2 points
runBothAlgorithmsFromTwo ==
    /\ IF Len(points) < 2
       THEN /\ hullFast' = <<>>
            /\ hullSlow' = <<>>
            /\ iterationsFast' = 0
            /\ iterationsSlow' = 0
       ELSE \E fast \in {computeGrahamScan(points, sortTies)} :
            \E slow \in {computeSlowConvexHull(points, sortTies)} :
                /\ hullFast' = fast.hull
                /\ iterationsFast' = fast.iterations
                /\ hullSlow' = slow.hull
                /\ iterationsSlow' = slow.iterations
    /\ lastCall' = "runBothAlgorithms"
    /\ UNCHANGED <<points, sortTies>>

runBothAlgorithms ==
    /\ IF Len(points) < 3
       THEN /\ hullFast' = <<>>
            /\ hullSlow' = <<>>
            /\ iterationsFast' = 0
            /\ iterationsSlow' = 0
       ELSE \E fast \in {computeGrahamScan(points, sortTies)} :
            \E slow \in {computeSlowConvexHull(points, sortTies)} :
                /\ hullFast' = fast.hull
                /\ iterationsFast' = fast.iterations
                /\ hullSlow' = slow.hull
                /\ iterationsSlow' = slow.iterations
    /\ lastCall' = "runBothAlgorithms"
    /\ UNCHANGED <<points, sortTies>>

Next ==
    \/ \E p \in Grid : mousePressEvent(p, MaxPoints)
    \/ runBothAlgorithms
    \/ clearAll

Spec == Init /\ [][Next]_vars

\* the positions of the triangle scenario, clicked in any order, repeats allowed
NextTriangle ==
    \/ \E p \in TrianglePts : mousePressEvent(p, TriangleMaxPoints)
    \/ runBothAlgorithms
    \/ clearAll

SpecTriangle == Init /\ [][NextTriangle]_vars

\* the positions of the square scenario, clicked in any order, repeats allowed
NextSquare ==
    \/ \E p \in SquarePts : mousePressEvent(p, SquareMaxPoints)
    \/ runBothAlgorithms
    \/ clearAll

SpecSquare == Init /\ [][NextSquare]_vars

\* ------------------------------------------------------------ properties
Ran == lastCall = "runBothAlgorithms"

NoThreeCollinear(pts) ==
    \A i, j, k \in 1..Len(pts) :
        (i < j /\ j < k) => cross(pts[i], pts[j], pts[k]) # 0

AllCollinear(pts) ==
    \A i, j, k \in 1..Len(pts) : cross(pts[i], pts[j], pts[k]) = 0

AllIdentical(pts) == \A i, j \in 1..Len(pts) : pts[i] = pts[j]

\* the point of index i has the smallest y and, among those, the smallest x
Lowest(pts, i) ==
    \A j \in 0..(Len(pts) - 1) :
        \/ At(pts, j)[2] > At(pts, i)[2]
        \/ At(pts, j)[2] = At(pts, i)[2] /\ At(pts, j)[1] >= At(pts, i)[1]

\* no point of index i lies strictly between two other points
Extreme(pts, i) ==
    LET p == At(pts, i)
    IN  ~ \E a, b \in 1..Len(pts) :
            (pts[a][1] - p[1]) * (pts[b][1] - p[1])
              + (pts[a][2] - p[2]) * (pts[b][2] - p[2]) < 0

ValidIndices(h) == \A i \in 1..Len(h) : h[i] \in 0..(Len(points) - 1)

NoRepeat(h) == \A i, j \in 1..Len(h) : i # j => h[i] # h[j]

\* orientation of the i-th consecutive triple of hull h, wrapping around
Turn(h, i) ==
    LET a == h[i]
        b == h[(i % Len(h)) + 1]
        c == h[((i + 1) % Len(h)) + 1]
    IN  cross(At(points, a), At(points, b), At(points, c))

NoClockwiseTurn(h) == \A i \in 1..Len(h) : Turn(h, i) >= 0

CounterClockwise(h) == \A i \in 1..Len(h) : Turn(h, i) > 0

Cleared ==
    /\ hullFast = <<>>
    /\ hullSlow = <<>>
    /\ iterationsFast = 0
    /\ iterationsSlow = 0

\* what a run on the current points returns when std::sort orders ties as t
RunResultIs(t) ==
    IF Len(points) < 3
    THEN Cleared
    ELSE /\ hullFast = computeGrahamScan(points, t).hull
         /\ iterationsFast = computeGrahamScan(points, t).iterations
         /\ hullSlow = computeSlowConvexHull(points, t).hull
         /\ iterationsSlow = computeSlowConvexHull(points, t).iterations

\* C1: on n >= 3 points, no three of them collinear, the fast hull and the
\* slow hull hold the same set of indices.
C1_SameVertexSet ==
    (Ran /\ Len(points) >= 3 /\ NoThreeCollinear(points))
        => Range(hullFast) = Range(hullSlow)

\* C2: after a run on the square with its interior point, each hull holds
\* exactly the four corners 0..3, in counter-clockwise order, and not 4.
C2_SquareCorners ==
    (Ran /\ points = Square)
        => /\ Len(hullFast) = 4 /\ Range(hullFast) = {0, 1, 2, 3}
           /\ CounterClockwise(hullFast)
           /\ Len(hullSlow) = 4 /\ Range(hullSlow) = {0, 1, 2, 3}
           /\ CounterClockwise(hullSlow)

\* C3: on n >= 3 points the fast hull is non-empty and starts at the pivot,
\* a point of smallest y and, among those, of smallest x.
C3_PivotFirst ==
    (Ran /\ Len(points) >= 3)
        => (hullFast # <<>> /\ Lowest(points, hullFast[1]))

\* C4: on n >= 3 points every entry of either hull is an index of the
\* input, and no index occurs twice in the same hull.
C4_ValidDistinctIndices ==
    (Ran /\ Len(points) >= 3)
        => /\ ValidIndices(hullFast) /\ NoRepeat(hullFast)
           /\ ValidIndices(hullSlow) /\ NoRepeat(hullSlow)

C4_Witness ==
    /\ Ran
    /\ Len(points) >= 3
    /\ \E i, j \in 1..Len(points) : i # j /\ points[i] = points[j]
    /\ \E i, j, k \in 1..Len(points) :
         i < j /\ j < k /\ Cardinality({points[i], points[j], points[k]}) = 3
           /\ cross(points[i], points[j], points[k]) = 0
    /\ Len(hullFast) >= 2
    /\ Len(hullSlow) >= 3

\* C5: on n >= 3 points no consecutive triple of either hull, wrapping
\* around, turns clockwise.
C5_NoClockwiseTurn ==
    (Ran /\ Len(points) >= 3)
        => (NoClockwiseTurn(hullFast) /\ NoClockwiseTurn(hullSlow))

\* C6: when all points have the same coordinates, each hull holds at most
\* one index after a run.
C6_IdenticalPointsOneVertex ==
    (Ran /\ AllIdentical(points))
        => (Len(hullFast) <= 1 /\ Len(hullSlow) <= 1)

\* C7: a run on fewer than 3 points leaves both hulls empty and both
\* counters 0.
C7_ShortCircuit == (Ran /\ Len(points) < 3) => Cleared

C7_Witness ==
    /\ Ran
    /\ Len(points) = 2
    /\ points[1] # points[2]
    /\ Cleared

\* C8: on n >= 3 points that all lie on one line the fast hull holds at
\* most 2 indices, each of an endpoint of the collinear set.
C8_CollinearExtremes ==
    (Ran /\ Len(points) >= 3 /\ AllCollinear(points))
        => /\ Len(hullFast) <= 2
           /\ \A i \in 1..Len(hullFast) : Extreme(points, hullFast[i])

C8_Witness ==
    /\ Ran
    /\ points = << <<0, 0>>, <<1, 1>>, <<2, 2>> >>
    /\ hullFast = <<2>>

\* C9: the hulls and counters a run leaves are those that a run on the
\* same points gives again, whichever way the sort orders its ties.
C9_Deterministic == Ran => \A t \in TieOrders : RunResultIs(t)

\* C10: in every state the hulls hold indices of the current points, and
\* they are empty and the counters 0 unless the last call was a run.
C10_FreshOrCleared ==
    /\ ValidIndices(hullFast)
    /\ ValidIndices(hullSlow)
    /\ (~Ran => Cleared)

C10_Witness ==
    /\ lastCall = "mousePressEvent"
    /\ Len(points) > 3
    /\ Cleared

====
